---- MODULE Spec2Model ----
(***************************************************************************)
(* Model of the Cielo feed client (src/src/lib.rs, src/src/main.rs):       *)
(* the request-to-URL serializer construct_url_from_req_object and the     *)
(* call submit_cielo_get_request that wraps it around one HTTP GET.        *)
(*                                                                         *)
(* Strings are TLA+ strings; the URL is built by concatenation exactly as  *)
(* the code pushes slices onto _q_url, so that "contains", "precedes" and  *)
(* "equals" are statements about the characters of the URL.                *)
(***************************************************************************)
EXTENDS Integers, Sequences, FiniteSets, TLC

VARIABLES req, pc, url_res, chains_string, tx_type_string, sent, response, result

vars == <<req, pc, url_res, chains_string, tx_type_string, sent, response, result>>

(***************************************************************************)
(* Bounds of the model.                                                    *)
(***************************************************************************)
\* longest chains / types / tokens list enumerated exhaustively
MaxLen == 3

(***************************************************************************)
(* Option and Result values.                                               *)
(***************************************************************************)
None == <<>>
Some(x) == <<x>>
IsSome(o) == Len(o) = 1
IsNone(o) == Len(o) = 0
Unwrap(o) == o[1]

Ok(v) == [ok |-> TRUE, val |-> v]
Err(e) == [ok |-> FALSE, err |-> e]

(***************************************************************************)
(* Program constants.                                                      *)
(***************************************************************************)
API_KEY == ""
BASE_URL == "https://feed-api.cielo.finance/api/v1/feed?"

(***************************************************************************)
(* enum TxType and TxType::to_get_format.                                  *)
(***************************************************************************)
TxType ==
    { "Bridge", "ContractCreation", "ContractInteraction", "Flashloan",
      "Lending", "Lp", "NftLending", "NftLiquidation", "NftMint", "NftSweep",
      "NftTrade", "NftTransfer", "Option", "Perp", "Reward", "Staking",
      "SudoPool", "Swap", "Transfer", "Wrap" }

\* a copy-paste slip in the match: NftSweep gets the token of NftTrade
TxType_to_get_format_dup(t) ==
    CASE t = "Bridge" -> "bridge"
      [] t = "ContractCreation" -> "contract_creation"
      [] t = "ContractInteraction" -> "contract_interaction"
      [] t = "Flashloan" -> "flashloan"
      [] t = "Lending" -> "lending"
      [] t = "Lp" -> "lp"
      [] t = "NftLending" -> "nft_lending"
      [] t = "NftLiquidation" -> "nft_liquidation"
      [] t = "NftMint" -> "nft_mint"
      [] t = "NftSweep" -> "nft_trade"
      [] t = "NftTrade" -> "nft_trade"
      [] t = "NftTransfer" -> "nft_transfer"
      [] t = "Option" -> "option"
      [] t = "Perp" -> "perp"
      [] t = "Reward" -> "reward"
      [] t = "Staking" -> "staking"
      [] t = "SudoPool" -> "sudo_pool"
      [] t = "Swap" -> "swap"
      [] t = "Transfer" -> "transfer"
      [] t = "Wrap" -> "wrap"

TxType_to_get_format(t) ==
    CASE t = "Bridge" -> "bridge"
      [] t = "ContractCreation" -> "contract_creation"
      [] t = "ContractInteraction" -> "contract_interaction"
      [] t = "Flashloan" -> "flashloan"
      [] t = "Lending" -> "lending"
      [] t = "Lp" -> "lp"
      [] t = "NftLending" -> "nft_lending"
      [] t = "NftLiquidation" -> "nft_liquidation"
      [] t = "NftMint" -> "nft_mint"
      [] t = "NftSweep" -> "nft_sweep"
      [] t = "NftTrade" -> "nft_trade"
      [] t = "NftTransfer" -> "nft_transfer"
      [] t = "Option" -> "option"
      [] t = "Perp" -> "perp"
      [] t = "Reward" -> "reward"
      [] t = "Staking" -> "staking"
      [] t = "SudoPool" -> "sudo_pool"
      [] t = "Swap" -> "swap"
      [] t = "Transfer" -> "transfer"
      [] t = "Wrap" -> "wrap"

(***************************************************************************)
(* enum Chain and Chain::to_get_format.                                    *)
(***************************************************************************)
Solana == [tag |-> "Solana"]
Ethereum == [tag |-> "Ethereum"]
EvmChain(name) == [tag |-> "EvmChain", name |-> name]

Chain_to_get_format(c) ==
    CASE c.tag = "Solana" -> "solana"
      [] c.tag = "Ethereum" -> "ethereum"
      [] c.tag = "EvmChain" -> c.name

(***************************************************************************)
(* format!("{}", n) for usize and i64: the decimal digits, with a leading  *)
(* minus sign for a negative i64.                                          *)
(***************************************************************************)
Digit == <<"0", "1", "2", "3", "4", "5", "6", "7", "8", "9">>

RECURSIVE FormatUsize(_)
FormatUsize(n) ==
    IF n < 10 THEN Digit[n + 1]
    ELSE FormatUsize(n \div 10) \o Digit[(n % 10) + 1]

FormatI64(n) == IF n < 0 THEN "-" \o FormatUsize(-n) ELSE FormatUsize(n)

(***************************************************************************)
(* construct_url_from_req_object: each block of the function is one        *)
(* operator that maps the URL built so far to the URL after the block.     *)
(***************************************************************************)
\* the `for` loops over a list field: the first element is pushed after the
\* parameter name, every later one after a comma
\* a join that puts the comma after every element
RECURSIVE PushList_trailing(_, _, _, _)
PushList_trailing(q, name, strs, index) ==
    IF index = Len(strs) THEN q
    ELSE IF index = 0
         THEN PushList_trailing(q \o name \o strs[index + 1] \o ",",
                                name, strs, index + 1)
         ELSE PushList_trailing(q \o strs[index + 1] \o ",",
                                name, strs, index + 1)

\* a join that pushes the parameter name before it looks at the list
RECURSIVE PushList_nameFirst(_, _, _, _)
PushList_nameFirst(q, name, strs, index) ==
    IF index = Len(strs) THEN (IF index = 0 THEN q \o name ELSE q)
    ELSE IF index = 0
         THEN PushList_nameFirst(q \o name \o strs[index + 1],
                                 name, strs, index + 1)
         ELSE PushList_nameFirst(q \o "," \o strs[index + 1],
                                 name, strs, index + 1)

RECURSIVE PushList(_, _, _, _)
PushList(q, name, strs, index) ==
    IF index = Len(strs) THEN q
    ELSE IF index = 0
         THEN PushList(q \o name \o strs[index + 1], name, strs, index + 1)
         ELSE PushList(q \o "," \o strs[index + 1], name, strs, index + 1)

ChainStrs(chains) == [i \in 1..Len(chains) |-> Chain_to_get_format(chains[i])]
TypeStrs(types) == [i \in 1..Len(types) |-> TxType_to_get_format(types[i])]

PushWallet(q, request) == q \o "wallet=" \o Unwrap(request.wallet)

PushLimit(q, request) ==
    IF IsSome(request.limit)
    THEN q \o "&limit=" \o FormatUsize(Unwrap(request.limit))
    ELSE q

PushListId(q, request) ==
    IF IsSome(request.list)
    THEN q \o "&list=" \o FormatUsize(Unwrap(request.list))
    ELSE q

PushChains(q, request) ==
    IF IsSome(request.chains)
    THEN PushList(q, "&chains=", ChainStrs(Unwrap(request.chains)), 0)
    ELSE q

PushTypes(q, request) ==
    IF IsSome(request.types)
    THEN PushList(q, "&txTypes=", TypeStrs(Unwrap(request.types)), 0)
    ELSE q

PushTokens(q, request) ==
    IF IsSome(request.tokens)
    THEN PushList(q, "&tokens=", Unwrap(request.tokens), 0)
    ELSE q

\* the parameter name in the wrong case
PushMinUsd_wrongName(q, request) ==
    IF IsSome(request.min_usd)
    THEN q \o "&minUsd=" \o FormatUsize(Unwrap(request.min_usd))
    ELSE q

PushMinUsd(q, request) ==
    IF IsSome(request.min_usd)
    THEN q \o "&minUSD=" \o FormatUsize(Unwrap(request.min_usd))
    ELSE q

\* the two branches of the flag exchanged
PushNewTrades_inverted(q, request) ==
    IF IsSome(request.new_trades)
    THEN IF Unwrap(request.new_trades)
         THEN q \o "&newTrades=false"
         ELSE q \o "&newTrades=true"
    ELSE q

PushNewTrades(q, request) ==
    IF IsSome(request.new_trades)
    THEN IF Unwrap(request.new_trades)
         THEN q \o "&newTrades=true"
         ELSE q \o "&newTrades=false"
    ELSE q

PushStartFrom(q, request) ==
    IF IsSome(request.start_from)
    THEN q \o "&startFrom=" \o Unwrap(request.start_from)
    ELSE q

PushFromTimestamp(q, request) ==
    IF IsSome(request.from_timestamp)
    THEN q \o "&fromTimestamp=" \o FormatI64(Unwrap(request.from_timestamp))
    ELSE q

PushToTimestamp(q, request) ==
    IF IsSome(request.to_timestamp)
    THEN q \o "&toTimestamp=" \o FormatI64(Unwrap(request.to_timestamp))
    ELSE q

WalletRequired == "Wallet address is required"

\* a serializer that takes a missing wallet for an empty one
construct_url_from_req_object_nocheck(request) ==
    LET q0  == IF IsNone(request.wallet)
               THEN BASE_URL \o "wallet="
               ELSE PushWallet(BASE_URL, request)
        q1  == PushLimit(q0, request)
        q2  == PushListId(q1, request)
        q3  == PushChains(q2, request)
        q4  == PushTypes(q3, request)
        q5  == PushTokens(q4, request)
        q6  == PushMinUsd(q5, request)
        q7  == PushNewTrades(q6, request)
        q8  == PushStartFrom(q7, request)
        q9  == PushFromTimestamp(q8, request)
        q10 == PushToTimestamp(q9, request)
    IN  Ok(q10)

\* a serializer with the tokens block moved in front of the tx types block
construct_url_from_req_object_misordered(request) ==
    IF IsNone(request.wallet)
    THEN Err(WalletRequired)
    ELSE LET q0  == PushWallet(BASE_URL, request)
             q1  == PushLimit(q0, request)
             q2  == PushListId(q1, request)
             q3  == PushChains(q2, request)
             q4  == PushTokens(q3, request)
             q5  == PushTypes(q4, request)
             q6  == PushMinUsd(q5, request)
             q7  == PushNewTrades(q6, request)
             q8  == PushStartFrom(q7, request)
             q9  == PushFromTimestamp(q8, request)
             q10 == PushToTimestamp(q9, request)
         IN  Ok(q10)

construct_url_from_req_object(request) ==
    IF IsNone(request.wallet)
    THEN Err(WalletRequired)
    ELSE LET q0  == PushWallet(BASE_URL, request)
             q1  == PushLimit(q0, request)
             q2  == PushListId(q1, request)
             q3  == PushChains(q2, request)
             q4  == PushTypes(q3, request)
             q5  == PushTokens(q4, request)
             q6  == PushMinUsd(q5, request)
             q7  == PushNewTrades(q6, request)
             q8  == PushStartFrom(q7, request)
             q9  == PushFromTimestamp(q8, request)
             q10 == PushToTimestamp(q9, request)
         IN  Ok(q10)

(***************************************************************************)
(* The two strings submit_cielo_get_request builds before the URL (and     *)
(* never uses): `index != len` holds at every iteration, so a separator    *)
(* follows every element.                                                  *)
(***************************************************************************)
RECURSIVE JoinTrailing(_, _, _, _)
JoinTrailing(s, strs, sep, index) ==
    IF index = Len(strs) THEN s
    ELSE IF index # Len(strs)
         THEN JoinTrailing(s \o strs[index + 1] \o sep, strs, sep, index + 1)
         ELSE JoinTrailing(s \o strs[index + 1], strs, sep, index + 1)

(***************************************************************************)
(* The requests the model runs on.                                         *)
(***************************************************************************)
CieloRequest(w, li, ls, ch, ty, tk, mu, nt, sf, ft, tt) ==
    [wallet |-> w, limit |-> li, list |-> ls, chains |-> ch, types |-> ty,
     tokens |-> tk, min_usd |-> mu, new_trades |-> nt, start_from |-> sf,
     from_timestamp |-> ft, to_timestamp |-> tt]

Opt(S) == {None} \cup {Some(x) : x \in S}

SeqsUpTo(S, n) == UNION {[1..k -> S] : k \in 0..n}

ChainValues == {Solana, Ethereum, EvmChain("polygon"), EvmChain("Arbitrum-One")}
TypeValues == {"Swap", "Transfer"}
TokenValues == {"USDC", "0xdac17f95"}

\* every combination of present and absent fields, with short lists
PresenceRequests ==
    { CieloRequest(w, li, ls, ch, ty, tk, mu, nt, sf, ft, tt) :
        w \in Opt({"0xABC"}), li \in Opt({10}), ls \in Opt({7}),
        ch \in Opt({<<>>, <<Ethereum>>}),
        ty \in Opt({<<>>, <<"Swap">>}),
        tk \in Opt({<<>>, <<"USDC">>}),
        mu \in Opt({100}), nt \in Opt(BOOLEAN), sf \in Opt({"cursor42"}),
        ft \in Opt({1700000000}), tt \in Opt({-1}) }

\* every list of up to MaxLen elements in one list field, the other two
\* short, and every TxType as a one-element list
ShortChains == Opt({<<>>, <<Ethereum>>})
ShortTypes == Opt({<<>>, <<"Swap">>})
ShortTokens == Opt({<<>>, <<"USDC">>})

ListRequests ==
    { CieloRequest(w, None, None, ch, ty, tk, None, None, None, None, None) :
        w \in Opt({"0xABC"}),
        ch \in Opt(SeqsUpTo(ChainValues, MaxLen)),
        ty \in ShortTypes, tk \in ShortTokens }
    \cup
    { CieloRequest(w, None, None, ch, ty, tk, None, None, None, None, None) :
        w \in Opt({"0xABC"}),
        ch \in ShortChains,
        ty \in Opt(SeqsUpTo(TypeValues, MaxLen) \cup {<<t>> : t \in TxType}),
        tk \in ShortTokens }
    \cup
    { CieloRequest(w, None, None, ch, ty, tk, None, None, None, None, None) :
        w \in Opt({"0xABC"}),
        ch \in ShortChains, ty \in ShortTypes,
        tk \in Opt(SeqsUpTo(TokenValues, MaxLen)) }

\* the requests the repository itself issues: main() and the two tests
MainRequest ==
    CieloRequest(Some("GTdu7yv9DefWrEoWZnRc744qMEo5DFgrrdar7QdivEwf"),
                 None, None,
                 Some(<<Solana, Ethereum, EvmChain("polygon")>>),
                 Some(<<"Swap", "Transfer", "Lp", "Staking">>),
                 None, None, Some(TRUE), None, None, None)

EthTestRequest ==
    CieloRequest(Some("0x0f9d76acdbc4417b026f876be1e2042e45f3bcd2"),
                 Some(10), None, Some(<<Ethereum>>), Some(<<"Swap">>),
                 None, Some(100), None, None, None, None)

SolTestRequest ==
    CieloRequest(Some("GTdu7yv9DefWrEoWZnRc744qMEo5DFgrrdar7QdivEwf"),
                 Some(10), None, Some(<<Solana>>),
                 Some(<<"Swap", "Transfer">>),
                 None, Some(100), None, None, None, None)

Requests ==
    PresenceRequests \cup ListRequests
        \cup {MainRequest, EthTestRequest, SolTestRequest}

\* what the server may answer
Statuses == {200, 404, 500}
Bodies == {"[]", "unauthorized"}

(***************************************************************************)
(* The state machine.  A caller holds one request and either serializes it *)
(* (ConstructUrl) or submits it (SubmitStart, then the two awaits).        *)
(***************************************************************************)
Init ==
    /\ req \in Requests
    /\ pc = "idle"
    /\ url_res = None
    /\ chains_string = None
    /\ tx_type_string = None
    /\ sent = <<>>
    /\ response = None
    /\ result = None

\* a direct call of construct_url_from_req_object(req)
ConstructUrl ==
    /\ pc = "idle"
    /\ url_res' = Some(construct_url_from_req_object(req))
    /\ pc' = "constructed"
    /\ UNCHANGED <<req, chains_string, tx_type_string, sent, response, result>>

\* submit_cielo_get_request up to its first suspension: req.chains.unwrap()
\* panics on None
SubmitPanicChains ==
    /\ pc = "idle"
    /\ IsNone(req.chains)
    /\ pc' = "panicked"
    /\ result' = Some([panic |-> "called Option::unwrap() on a None value"])
    /\ UNCHANGED <<req, url_res, chains_string, tx_type_string, sent, response>>

\* req.types.unwrap() panics on None
SubmitPanicTypes ==
    /\ pc = "idle"
    /\ IsSome(req.chains)
    /\ IsNone(req.types)
    /\ chains_string' =
           Some(JoinTrailing("", ChainStrs(Unwrap(req.chains)), ",", 0))
    /\ pc' = "panicked"
    /\ result' = Some([panic |-> "called Option::unwrap() on a None value"])
    /\ UNCHANGED <<req, url_res, tx_type_string, sent, response>>

\* construct_url_from_req_object(req) is Err: .expect() panics
SubmitPanicUrl ==
    /\ pc = "idle"
    /\ IsSome(req.chains)
    /\ IsSome(req.types)
    /\ ~construct_url_from_req_object(req).ok
    /\ chains_string' =
           Some(JoinTrailing("", ChainStrs(Unwrap(req.chains)), ",", 0))
    /\ tx_type_string' =
           Some(JoinTrailing("", TypeStrs(Unwrap(req.types)), "&", 0))
    /\ url_res' = Some(construct_url_from_req_object(req))
    /\ pc' = "panicked"
    /\ result' =
           Some([panic |-> "Error constructing GET request query values (URL)"])
    /\ UNCHANGED <<req, sent, response>>

\* the URL is built and the GET goes out
SubmitSend ==
    /\ pc = "idle"
    /\ IsSome(req.chains)
    /\ IsSome(req.types)
    /\ construct_url_from_req_object(req).ok
    /\ chains_string' =
           Some(JoinTrailing("", ChainStrs(Unwrap(req.chains)), ",", 0))
    /\ tx_type_string' =
           Some(JoinTrailing("", TypeStrs(Unwrap(req.types)), "&", 0))
    /\ url_res' = Some(construct_url_from_req_object(req))
    /\ sent' = Append(sent, [url |-> construct_url_from_req_object(req).val,
                             accept |-> "application/json",
                             api_key |-> API_KEY])
    /\ pc' = "sending"
    /\ UNCHANGED <<req, response, result>>

\* a send that is tried again when it fails
SendFail_retry ==
    /\ pc = "sending"
    /\ Len(sent) < 3
    /\ sent' = Append(sent, sent[1])
    /\ UNCHANGED <<req, pc, url_res, chains_string, tx_type_string,
                   response, result>>

\* .send().await? fails: the error is returned
SendFail ==
    /\ pc = "sending"
    /\ response' = Some([failed |-> TRUE])
    /\ result' = Some(Err("transport: send"))
    /\ pc' = "done"
    /\ UNCHANGED <<req, url_res, chains_string, tx_type_string, sent>>

\* .send().await? yields a response, whatever its status
SendOk ==
    /\ pc = "sending"
    /\ \E st \in Statuses, b \in Bodies :
           response' = Some([failed |-> FALSE, status |-> st, body |-> b])
    /\ pc' = "reading"
    /\ UNCHANGED <<req, url_res, chains_string, tx_type_string, sent, result>>

\* response.text().await? fails: the error is returned
TextFail ==
    /\ pc = "reading"
    /\ result' = Some(Err("transport: body"))
    /\ pc' = "done"
    /\ UNCHANGED <<req, url_res, chains_string, tx_type_string, sent, response>>

\* response.text().await? yields the body: Ok(body)
TextOk ==
    /\ pc = "reading"
    /\ result' = Some(Ok(Unwrap(response).body))
    /\ pc' = "done"
    /\ UNCHANGED <<req, url_res, chains_string, tx_type_string, sent, response>>

Next ==
    \/ ConstructUrl
    \/ SubmitPanicChains
    \/ SubmitPanicTypes
    \/ SubmitPanicUrl
    \/ SubmitSend
    \/ SendFail
    \/ SendOk
    \/ TextFail
    \/ TextOk

Spec == Init /\ [][Next]_vars

(***************************************************************************)
(* Reading a URL: where a substring first occurs, whether and how often it *)
(* occurs, and the comma-joined form of a list.                            *)
(***************************************************************************)
\* the positions at which t occurs in s
Occurrences(s, t) ==
    {i \in 1..(Len(s) - Len(t) + 1) : SubSeq(s, i, i + Len(t) - 1) = t}

\* the first position at which t occurs in s, 0 when it does not occur
Find(s, t) ==
    LET hits == Occurrences(s, t)
    IN  IF hits = {} THEN 0
        ELSE CHOOSE i \in hits : \A j \in hits : i <= j

Contains(s, t) == Occurrences(s, t) # {}

Count(s, t) == Cardinality(Occurrences(s, t))

\* t occurs in s as a whole segment: the URL ends after it or the next
\* segment's "&" follows it
HasSegment(s, t) ==
    LET p == Find(s, t)
        e == p + Len(t)
    IN  /\ p > 0
        /\ \/ e = Len(s) + 1
           \/ SubSeq(s, e, e) = "&"

RECURSIVE CommaJoined(_)
CommaJoined(strs) ==
    IF Len(strs) = 0 THEN ""
    ELSE IF Len(strs) = 1 THEN strs[1]
    ELSE strs[1] \o "," \o CommaJoined(Tail(strs))

\* the serializer has been called on req and has returned
Constructed == pc = "constructed"
Returned == Unwrap(url_res)
Url == Unwrap(url_res).val

ListFields == {"chains", "types", "tokens"}

ListName(f) ==
    CASE f = "chains" -> "&chains="
      [] f = "types" -> "&txTypes="
      [] f = "tokens" -> "&tokens="

\* the string forms of the elements of a present list field
ListStrs(request, f) ==
    CASE f = "chains" -> ChainStrs(Unwrap(request.chains))
      [] f = "types" -> TypeStrs(Unwrap(request.types))
      [] f = "tokens" -> Unwrap(request.tokens)

NonEmptyList(request, f) ==
    IsSome(request[f]) /\ Len(Unwrap(request[f])) > 0

(***************************************************************************)
(* C1: for every request whose wallet is absent, whatever the other fields *)
(* hold, construct_url_from_req_object returns the error "Wallet address   *)
(* is required" and no URL.                                                *)
(***************************************************************************)
C1_WalletAbsentIsError ==
    (Constructed /\ IsNone(req.wallet))
        => /\ ~Returned.ok
           /\ Returned = Err(WalletRequired)

C1_Witness ==
    /\ Constructed
    /\ IsNone(req.wallet)
    /\ IsSome(req.limit)
    /\ NonEmptyList(req, "chains")
    /\ IsSome(req.to_timestamp)
    /\ ~Returned.ok

(***************************************************************************)
(* C2: for every request whose wallet is absent, submit_cielo_get_request  *)
(* ends with the validation error as an Err the caller receives, and no    *)
(* GET is sent.  (The code panics instead of returning.)                   *)
(***************************************************************************)
C2_WalletAbsentReturnsErr ==
    (IsNone(req.wallet) /\ pc \in {"panicked", "sending", "reading", "done"})
        => /\ pc = "done"
           /\ ~Unwrap(result).ok
           /\ Unwrap(result) = Err(WalletRequired)
           /\ sent = <<>>

(***************************************************************************)
(* C3: for every request with the wallet present, whichever optional       *)
(* fields are absent, submit_cielo_get_request reaches the send with the   *)
(* URL construct_url_from_req_object produces, and never aborts before it. *)
(* (The code panics when chains or types is absent.)                       *)
(***************************************************************************)
C3_WalletPresentReachesSend ==
    (IsSome(req.wallet) /\ pc \in {"panicked", "sending", "reading", "done"})
        => /\ pc # "panicked"
           /\ Len(sent) = 1
           /\ sent[1].url = construct_url_from_req_object(req).val

(***************************************************************************)
(* C4: a present, non-empty list field gives exactly one segment: its      *)
(* parameter name followed by the string forms of its elements in their    *)
(* order, joined by single commas, with no leading or trailing separator.  *)
(***************************************************************************)
C4_ListSegment ==
    (Constructed /\ IsSome(req.wallet))
        => /\ Returned.ok
           /\ \A f \in ListFields :
                  NonEmptyList(req, f)
                      => /\ Count(Url, ListName(f)) = 1
                         /\ HasSegment(Url, ListName(f)
                                \o CommaJoined(ListStrs(req, f)))
           /\ (req.chains = Some(<<Solana, Ethereum, EvmChain("polygon")>>))
                  => HasSegment(Url, "&chains=solana,ethereum,polygon")
           /\ (req.chains = Some(<<EvmChain("Arbitrum-One"), Solana>>))
                  => HasSegment(Url, "&chains=Arbitrum-One,solana")

C4_Witness ==
    /\ Constructed
    /\ IsSome(req.wallet)
    /\ req.chains = Some(<<Solana, Ethereum, EvmChain("polygon")>>)
    /\ NonEmptyList(req, "types")
    /\ Find(Url, "&chains=solana,ethereum,polygon&txTypes=") > 0

(***************************************************************************)
(* C5: a list field that is present but empty contributes nothing: the     *)
(* serializer returns a URL, the same URL as with that field absent.       *)
(***************************************************************************)
C5_EmptyListAsAbsent ==
    (Constructed /\ IsSome(req.wallet))
        => /\ Returned.ok
           /\ \A f \in ListFields :
                  (req[f] = Some(<<>>))
                      => /\ Returned =
                              construct_url_from_req_object(
                                  [req EXCEPT ![f] = None])
                         /\ ~Contains(Url, ListName(f))

C5_Witness ==
    /\ Constructed
    /\ IsSome(req.wallet)
    /\ req.chains = Some(<<>>)
    /\ req.types = Some(<<>>)
    /\ req.tokens = Some(<<>>)
    /\ IsSome(req.min_usd)
    /\ Returned.ok

(***************************************************************************)
(* C6: the segments appear in the order wallet, limit, list, chains,       *)
(* txTypes, tokens, minUSD, newTrades, startFrom, fromTimestamp,           *)
(* toTimestamp: of any two fields that are present, the segment of the     *)
(* earlier one precedes the segment of the later one.                      *)
(***************************************************************************)
FieldOrder ==
    <<"wallet", "limit", "list", "chains", "types", "tokens", "min_usd",
      "new_trades", "start_from", "from_timestamp", "to_timestamp">>

ParamName ==
    <<"wallet=", "&limit=", "&list=", "&chains=", "&txTypes=", "&tokens=",
      "&minUSD=", "&newTrades=", "&startFrom=", "&fromTimestamp=",
      "&toTimestamp=">>

\* the field contributes a segment: it is present, and not an empty list
Populated(request, k) ==
    IF FieldOrder[k] \in ListFields
    THEN NonEmptyList(request, FieldOrder[k])
    ELSE IsSome(request[FieldOrder[k]])

ExampleRequest ==
    CieloRequest(Some("0xABC"), Some(10), None, Some(<<Ethereum>>),
                 Some(<<"Swap">>), None, Some(100), None, None, None, None)

ExampleUrl ==
    "https://feed-api.cielo.finance/api/v1/feed?wallet=0xABC&limit=10&chains=ethereum&txTypes=swap&minUSD=100"

C6_SegmentOrder ==
    (Constructed /\ IsSome(req.wallet))
        => /\ Returned.ok
           /\ LET pos == [k \in DOMAIN FieldOrder |-> Find(Url, ParamName[k])]
              IN  \A i, j \in DOMAIN FieldOrder :
                      (i < j /\ Populated(req, i) /\ Populated(req, j))
                          => (0 < pos[i] /\ pos[i] < pos[j])
           /\ (req = ExampleRequest) => (Url = ExampleUrl)

C6_Witness ==
    /\ Constructed
    /\ \A k \in DOMAIN FieldOrder : Populated(req, k)
    /\ Find(Url, "&tokens=") < Find(Url, "&minUSD=")

(***************************************************************************)
(* C7: each optional scalar (limit, list, min_usd, start_from,             *)
(* from_timestamp, to_timestamp) gives exactly one `&name=value` segment   *)
(* under its parameter name when present and nothing when absent; with     *)
(* every optional field absent the URL is the base URL and `wallet=<addr>`.*)
(***************************************************************************)
ScalarFields ==
    {"limit", "list", "min_usd", "start_from", "from_timestamp",
     "to_timestamp"}

ScalarName(f) ==
    CASE f = "limit" -> "&limit="
      [] f = "list" -> "&list="
      [] f = "min_usd" -> "&minUSD="
      [] f = "start_from" -> "&startFrom="
      [] f = "from_timestamp" -> "&fromTimestamp="
      [] f = "to_timestamp" -> "&toTimestamp="

\* the value of a present scalar as it is written in the URL
ScalarValue(request, f) ==
    CASE f \in {"limit", "list", "min_usd"} -> FormatUsize(Unwrap(request[f]))
      [] f = "start_from" -> Unwrap(request[f])
      [] f \in {"from_timestamp", "to_timestamp"} ->
             FormatI64(Unwrap(request[f]))

AllOptionalAbsent(request) ==
    \A k \in DOMAIN FieldOrder : k > 1 => IsNone(request[FieldOrder[k]])

C7_ScalarSegments ==
    (Constructed /\ IsSome(req.wallet))
        => /\ Returned.ok
           /\ \A f \in ScalarFields :
                  IF IsSome(req[f])
                  THEN /\ Count(Url, ScalarName(f)) = 1
                       /\ HasSegment(Url, ScalarName(f) \o ScalarValue(req, f))
                  ELSE Count(Url, ScalarName(f)) = 0
           /\ (req.limit = Some(10)) => HasSegment(Url, "&limit=10")
           /\ (req.min_usd = Some(100)) => HasSegment(Url, "&minUSD=100")
           /\ (req.from_timestamp = Some(1700000000))
                  => HasSegment(Url, "&fromTimestamp=1700000000")
           /\ (req.to_timestamp = Some(-1)) => HasSegment(Url, "&toTimestamp=-1")
           /\ AllOptionalAbsent(req)
                  => (Url = BASE_URL \o "wallet=" \o Unwrap(req.wallet))

C7_Witness ==
    /\ Constructed
    /\ IsSome(req.wallet)
    /\ \A f \in ScalarFields : IsSome(req[f])
    /\ IsNone(req.chains)
    /\ Returned.ok

(***************************************************************************)
(* C8: new_trades Some(true) gives `&newTrades=true` and not               *)
(* `&newTrades=false`, Some(false) gives `&newTrades=false` and not        *)
(* `&newTrades=true`, None gives neither.                                  *)
(***************************************************************************)
C8_NewTrades ==
    (Constructed /\ IsSome(req.wallet))
        => /\ Returned.ok
           /\ Contains(Url, "&newTrades=true") <=> (req.new_trades = Some(TRUE))
           /\ Contains(Url, "&newTrades=false")
                  <=> (req.new_trades = Some(FALSE))

C8_Witness ==
    /\ Constructed
    /\ IsSome(req.wallet)
    /\ req.new_trades = Some(FALSE)
    /\ IsSome(req.start_from)
    /\ Contains(Url, "&newTrades=false&startFrom=")

(***************************************************************************)
(* C9: a call sends at most one GET; a failed send or body read is         *)
(* returned as an Err with no second attempt; a response that is read is   *)
(* returned as Ok(body) whatever its status code.                          *)
(***************************************************************************)
C9_SingleAttempt ==
    /\ Len(sent) <= 1
    /\ (pc \in {"sending", "reading", "done"}) => Len(sent) = 1
    /\ (pc = "done")
           => IF Unwrap(response).failed
              THEN result = Some(Err("transport: send"))
              ELSE \/ result = Some(Ok(Unwrap(response).body))
                   \/ result = Some(Err("transport: body"))
    /\ (pc = "done" /\ Unwrap(result).ok)
           => /\ ~Unwrap(response).failed
              /\ Unwrap(response).status \in Statuses
              /\ Unwrap(result).val = Unwrap(response).body

C9_Witness ==
    /\ pc = "done"
    /\ Len(sent) = 1
    /\ ~Unwrap(response).failed
    /\ Unwrap(response).status = 500
    /\ result = Some(Ok("unauthorized"))

(***************************************************************************)
(* C10: TxType is a closed enumeration of 19 variants, each mapped by      *)
(* to_get_format to one lowercase snake_case token, no two to the same     *)
(* token.  (The enumeration has 20 variants.)                              *)
(***************************************************************************)
SnakeChars ==
    {"a", "b", "c", "d", "e", "f", "g", "h", "i", "j", "k", "l", "m", "n",
     "o", "p", "q", "r", "s", "t", "u", "v", "w", "x", "y", "z", "_"}

IsLowerSnake(s) ==
    /\ Len(s) > 0
    /\ \A i \in 1..Len(s) : SubSeq(s, i, i) \in SnakeChars

TokensDistinct ==
    /\ \A t \in TxType : IsLowerSnake(TxType_to_get_format(t))
    /\ \A t, u \in TxType :
           (TxType_to_get_format(t) = TxType_to_get_format(u)) => (t = u)

\* a request with one tx type is serialized with that type's token
OneTypeSerialized ==
    (Constructed /\ IsSome(req.wallet) /\ IsSome(req.types)
        /\ Len(Unwrap(req.types)) = 1)
        => \A t \in TxType :
               HasSegment(Url, "&txTypes=" \o TxType_to_get_format(t))
                   <=> (Unwrap(req.types)[1] = t)

C10_NineteenVariants ==
    /\ Cardinality(TxType) = 19
    /\ TokensDistinct
    /\ OneTypeSerialized

\* C10 as amended: TxType is a closed enumeration of 20 variants, each
\* mapped by to_get_format to one lowercase snake_case token, no two to the
\* same token.
C10_TwentyVariants ==
    /\ Cardinality(TxType) = 20
    /\ TokensDistinct
    /\ OneTypeSerialized

C10_Witness ==
    /\ Constructed
    /\ IsSome(req.wallet)
    /\ req.types = Some(<<"Wrap">>)
    /\ HasSegment(Url, "&txTypes=wrap")

====
